---- MODULE Spec2Model ----
(***************************************************************************)
(* CSVDataManager (src/src/csv_data_manager.py): one object built from a   *)
(* semicolon-delimited file, then queried read-only.                       *)
(*                                                                         *)
(* Representation.                                                         *)
(*  - A Python str is a sequence of one-character strings.                 *)
(*  - A number of the file is the integer of its ticks, one tick = 0.0001, *)
(*    so "1.0000" is 10000 ticks; every number is written with four       *)
(*    decimals.                                                            *)
(*  - A Python float is the IEEE 754 double [neg, man, exp].               *)
(*  - An argument that may be None, an int or a str is a record            *)
(*    [t, i, s]; only the field its tag names is meaningful.               *)
(*  - An exception is a record [cls, msg, arg]: the class raised, the      *)
(*    message template of the raise statement, and the value the message  *)
(*    embeds.                                                              *)
(*  - A call returns [exc, val]; exc = NoExc means the call returned val.  *)
(***************************************************************************)
EXTENDS Integers, Sequences, FiniteSets, TLC

VARIABLES
    filepath,    \* the filepath argument of the constructor call
    disk,        \* what the file system holds at that path
    prefix,      \* self._prefix
    pc,          \* "new": constructor not run; "loaded": object exists; "failed": constructor raised
    dataframe,   \* self._dataframe: [columns, data], data[k] the k-th column
    nr_of_data,  \* self._nr_of_data
    loaded,      \* self.loaded
    last         \* the last call: [op, idx, hdr, exc, ret]

vars == <<filepath, disk, prefix, pc, dataframe, nr_of_data, loaded, last>>

----------------------------------------------------------------------------
(* Bounds of the model *)

\* most data rows of a file in the data family
MaxRows == 2
\* longest header of the header family
MaxHdrLen == 4

----------------------------------------------------------------------------
(* Python values *)

NoneArg == [t |-> "None", i |-> 0, s |-> <<>>]
IntArg(n) == [t |-> "int", i |-> n, s |-> <<>>]
StrArg(str) == [t |-> "str", i |-> 0, s |-> str]

NoExc == [cls |-> "", msg |-> "", arg |-> <<>>]
Exc(cls, msg, arg) == [cls |-> cls, msg |-> msg, arg |-> arg]
Return(v) == [exc |-> NoExc, val |-> v]
Raise(e) == [exc |-> e, val |-> <<>>]
Raised(r) == r.exc.cls # ""

\* Python's exception hierarchy, as far as the except clauses of _load_data
\* can tell: the classes `cls` is an instance of.
Bases(cls) ==
    CASE cls = "FileNotFoundError"  -> {"FileNotFoundError", "OSError", "Exception"}
      [] cls = "IsADirectoryError"  -> {"IsADirectoryError", "OSError", "Exception"}
      [] cls = "EmptyDataError"     -> {"EmptyDataError", "ValueError", "Exception"}
      [] cls = "ParserError"        -> {"ParserError", "ValueError", "Exception"}
      [] cls = "UnicodeDecodeError" -> {"UnicodeDecodeError", "ValueError", "Exception"}
      [] OTHER                      -> {cls, "Exception"}

IsInstance(cls, base) == base \in Bases(cls)

----------------------------------------------------------------------------
(* str operations *)

Range(f) == {f[k] : k \in DOMAIN f}

\* s[k:].startswith(p), k counted from 1
StartsWithAt(s, p, k) ==
    /\ k + Len(p) - 1 <= Len(s)
    /\ SubSeq(s, k, k + Len(p) - 1) = p

\* p in s
StrIn(p, s) == \E k \in 1..(Len(s) + 1) : StartsWithAt(s, p, k)

\* index (from 1) of the first occurrence of p in s at or after k; 0 if none
RECURSIVE Find(_, _, _)
Find(s, p, k) ==
    IF k + Len(p) - 1 > Len(s) THEN 0
    ELSE IF StartsWithAt(s, p, k) THEN k
    ELSE Find(s, p, k + 1)

\* s.replace(p, ''): every non-overlapping occurrence, left to right
RECURSIVE StrRemove(_, _)
StrRemove(s, p) ==
    IF Len(p) = 0 THEN s
    ELSE LET k == Find(s, p, 1) IN
         IF k = 0 THEN s
         ELSE SubSeq(s, 1, k - 1) \o StrRemove(SubSeq(s, k + Len(p), Len(s)), p)

\* s.split(sep): the list of parts, split at every occurrence of sep
RECURSIVE StrSplit(_, _)
StrSplit(s, sep) ==
    LET k == Find(s, sep, 1) IN
    IF k = 0 THEN <<s>>
    ELSE <<SubSeq(s, 1, k - 1)>> \o StrSplit(SubSeq(s, k + Len(sep), Len(s)), sep)

\* index (from 1) of the last "." of s; 0 if none
RECURSIVE RFindDot(_, _)
RFindDot(s, k) ==
    IF k = 0 THEN 0 ELSE IF s[k] = "." THEN k ELSE RFindDot(s, k - 1)

\* pathlib.Path(p).suffix for a path of one component
Suffix(p) ==
    LET k == RFindDot(p, Len(p)) IN
    IF 1 < k /\ k < Len(p) THEN SubSeq(p, k, Len(p)) ELSE <<>>

----------------------------------------------------------------------------
(* Natural numbers as wide as a float's arithmetic needs: the sequence of  *)
(* the limbs, least significant first, without a leading zero limb.        *)

LimbBits == 15
Limb == 2^LimbBits

\* a without its leading zero limbs
BNorm(a) ==
    LET top == {k \in 1..Len(a) : a[k] # 0} IN
    IF top = {} THEN <<>> ELSE SubSeq(a, 1, CHOOSE k \in top : \A j \in top : j <= k)

RECURSIVE BFromInt(_)
BFromInt(n) == IF n = 0 THEN <<>> ELSE <<n % Limb>> \o BFromInt(n \div Limb)

\* the value of a, for a below 2^31
RECURSIVE BToInt(_)
BToInt(a) == IF a = <<>> THEN 0 ELSE a[1] + Limb * BToInt(Tail(a))

\* limb k of a
BLimb(a, k) == IF k <= Len(a) THEN a[k] ELSE 0

\* The limb loops split the limbs lo..hi in two halves, the carry of the
\* first half entering the second.

\* limbs lo..hi of a + b + c and the carry out
RECURSIVE BAddAt(_, _, _, _, _)
BAddAt(a, b, lo, hi, c) ==
    IF lo > hi THEN [s |-> <<>>, c |-> c]
    ELSE IF lo = hi
        THEN LET t == BLimb(a, lo) + BLimb(b, lo) + c
             IN  [s |-> <<t % Limb>>, c |-> t \div Limb]
    ELSE LET l == BAddAt(a, b, lo, (lo + hi) \div 2, c)
             h == IF l.c = 0 THEN BAddAt(a, b, (lo + hi) \div 2 + 1, hi, 0)
                  ELSE BAddAt(a, b, (lo + hi) \div 2 + 1, hi, l.c)
         IN  [s |-> l.s \o h.s, c |-> h.c]

\* the limbs of r with its carry out as the top limb
BWithCarry(r) == IF r.c = 0 THEN r.s ELSE Append(r.s, r.c)

BAdd(a, b) ==
    BWithCarry(BAddAt(a, b, 1, IF Len(a) > Len(b) THEN Len(a) ELSE Len(b), 0))

\* limbs lo..hi of a - b - c and the borrow out
RECURSIVE BSubAt(_, _, _, _, _)
BSubAt(a, b, lo, hi, c) ==
    IF lo > hi THEN [s |-> <<>>, c |-> c]
    ELSE IF lo = hi
        THEN LET t == a[lo] - BLimb(b, lo) - c
             IN  [s |-> <<t % Limb>>, c |-> IF t < 0 THEN 1 ELSE 0]
    ELSE LET l == BSubAt(a, b, lo, (lo + hi) \div 2, c)
             h == IF l.c = 0 THEN BSubAt(a, b, (lo + hi) \div 2 + 1, hi, 0)
                  ELSE BSubAt(a, b, (lo + hi) \div 2 + 1, hi, l.c)
         IN  [s |-> l.s \o h.s, c |-> h.c]

\* a - b for a >= b
BSub(a, b) == BNorm(BSubAt(a, b, 1, Len(a), 0).s)

\* -1, 0 or 1 as a is below, equal to or above b
BCmp(a, b) ==
    LET diff == {k \in 1..Len(a) : a[k] # BLimb(b, k)}
        top == CHOOSE k \in diff : \A j \in diff : j <= k
    IN  IF Len(a) < Len(b) THEN (0 - 1)
        ELSE IF Len(a) > Len(b) THEN 1
        ELSE IF diff = {} THEN 0
        ELSE IF a[top] < b[top] THEN (0 - 1)
        ELSE 1

\* limbs lo..hi of a * s + c and the carry out
RECURSIVE BMulSmallAt(_, _, _, _, _)
BMulSmallAt(a, s, lo, hi, c) ==
    IF lo > hi THEN [s |-> <<>>, c |-> c]
    ELSE IF lo = hi
        THEN LET t == a[lo] * s + c
             IN  [s |-> <<t % Limb>>, c |-> t \div Limb]
    ELSE LET l == BMulSmallAt(a, s, lo, (lo + hi) \div 2, c)
             h == IF l.c = 0 THEN BMulSmallAt(a, s, (lo + hi) \div 2 + 1, hi, 0)
                  ELSE BMulSmallAt(a, s, (lo + hi) \div 2 + 1, hi, l.c)
         IN  [s |-> l.s \o h.s, c |-> h.c]

\* a * s for 0 <= s <= Limb
BMulSmall(a, s) == BNorm(BWithCarry(BMulSmallAt(a, s, 1, Len(a), 0)))

\* a * b for a b of few limbs
RECURSIVE BMul(_, _)
BMul(a, b) ==
    IF b = <<>> THEN <<>>
    ELSE LET hi == BMul(a, Tail(b))
         IN  BAdd(BMulSmall(a, b[1]), IF hi = <<>> THEN hi ELSE <<0>> \o hi)

\* limbs lo..hi of the quotient of r * Limb^hi + a by s, from the top limb
\* down, and the remainder
RECURSIVE BDivSmallAt(_, _, _, _, _)
BDivSmallAt(a, s, lo, hi, r) ==
    IF lo > hi THEN [q |-> <<>>, r |-> r]
    ELSE IF lo = hi
        THEN LET t == r * Limb + a[lo]
             IN  [q |-> <<t \div s>>, r |-> t % s]
    ELSE LET h == BDivSmallAt(a, s, (lo + hi) \div 2 + 1, hi, r)
             l == IF h.r = 0 THEN BDivSmallAt(a, s, lo, (lo + hi) \div 2, 0)
                  ELSE BDivSmallAt(a, s, lo, (lo + hi) \div 2, h.r)
         IN  [q |-> l.q \o h.q, r |-> l.r]

\* quotient q, without its leading zero limbs, and remainder r of a by s,
\* 0 < s <= Limb
BDivSmall(a, s) ==
    LET d == BDivSmallAt(a, s, 1, Len(a), 0)
    IN  [q |-> BNorm(d.q), r |-> d.r]

\* a * 2^n
BShl(a, n) ==
    IF a = <<>> THEN a
    ELSE [k \in 1..(n \div LimbBits) |-> 0] \o BMulSmall(a, 2^(n % LimbBits))

\* a \div 2^n
BShr(a, n) ==
    IF n \div LimbBits >= Len(a) THEN <<>>
    ELSE BDivSmall(SubSeq(a, n \div LimbBits + 1, Len(a)), 2^(n % LimbBits)).q

RECURSIVE IntBitLen(_)
IntBitLen(n) == IF n = 0 THEN 0 ELSE 1 + IntBitLen(n \div 2)

\* number of bits of a
BBitLen(a) ==
    IF a = <<>> THEN 0 ELSE LimbBits * (Len(a) - 1) + IntBitLen(a[Len(a)])

\* q or q + 1: the rounding of a quotient q whose dropped part compares to
\* one half as c (-1, 0, 1), a tie to the even one; sticky tells of a part
\* dropped before
BRoundUp(q, c, sticky) ==
    IF c > 0 \/ (c = 0 /\ (sticky \/ (q # <<>> /\ q[1] % 2 = 1))) THEN BAdd(q, <<1>>) ELSE q

\* the rounding of the quotient q of a by 2^n
BRoundQuotient(q, a, n, sticky) ==
    BRoundUp(q, BCmp(BSub(a, BShl(q, n)), BShl(<<1>>, n - 1)), sticky)

\* (a + f) / 2^n rounded to the nearest natural number, a tie to the even
\* one; 0 <= f < 1, and sticky tells whether f > 0
BRoundShift(a, n, sticky) ==
    IF n <= 0 THEN BShl(a, 0 - n) ELSE BRoundQuotient(BShr(a, n), a, n, sticky)

----------------------------------------------------------------------------
(* Python float: an IEEE 754 double, [neg, man, exp] for the value         *)
(* (-1)^neg * man * 2^exp with man odd, or man = 0 and exp = 0 for the two *)
(* zeros.  The infinities and nan carry the exponent no finite double has, *)
(* with man = 0 and man = 1.  Every operation rounds its exact result to   *)
(* 53 bits, or to a multiple of 2^-1074 if that is coarser, a tie to the   *)
(* even mantissa, and gives an infinity from 2^1024 on.                    *)

Precision == 53
MinExp == 0 - 1074
SpecialExp == 1024

Inf(neg) == [neg |-> neg, man |-> <<>>, exp |-> SpecialExp]
NaN == [neg |-> FALSE, man |-> <<1>>, exp |-> SpecialExp]

\* math.isfinite(x)
is_finite(x) == x.exp < SpecialExp

\* math.isnan(x)
is_nan(x) == x.exp = SpecialExp /\ x.man # <<>>

\* the float of man * 2^exp with the factors of two of man moved to exp
float_canon(neg, man, exp) ==
    LET k == CHOOSE j \in 1..Len(man) : man[j] # 0 /\ \A i \in 1..(j - 1) : man[i] = 0
        z == CHOOSE j \in 0..(LimbBits - 1) : man[k] % 2^(j + 1) = 2^j
        n == (k - 1) * LimbBits + z
    IN  IF man = <<>> THEN [neg |-> neg, man |-> <<>>, exp |-> 0]
        ELSE [neg |-> neg, man |-> BShr(man, n), exp |-> exp + n]

\* the float of man * 2^exp, man of at most Precision bits: an infinity
\* from 2^1024 on
float_pack(neg, man, exp) ==
    IF exp + BBitLen(man) > SpecialExp THEN Inf(neg) ELSE float_canon(neg, man, exp)

\* the float of (man + f) * 2^exp with the last n bits of man rounded away
float_round_bits(neg, man, exp, sticky, n) ==
    float_pack(neg,
               IF n <= 0 THEN man ELSE BRoundShift(man, n, sticky),
               IF n <= 0 THEN exp ELSE exp + n)

\* the double nearest to (-1)^neg * (man + f) * 2^exp, 0 <= f < 1, sticky
\* telling whether f > 0 (then man has more than Precision + 1 bits)
float_round(neg, man, exp, sticky) ==
    float_round_bits(neg, man, exp, sticky,
                     IF BBitLen(man) - Precision > MinExp - exp
                     THEN BBitLen(man) - Precision ELSE MinExp - exp)

\* a * 10^k, by halves of k down to four digits
RECURSIVE BMulPow10(_, _)
BMulPow10(a, k) ==
    IF k <= 4 THEN BMulSmall(a, 10^k)
    ELSE LET half == BMulPow10(a, k \div 2)
         IN  IF half = <<>> THEN half ELSE BMulPow10(half, k - k \div 2)

\* the quotient d, and whether a remainder was dropped, now or before
BSticky(d, sticky) == [q |-> d.q, sticky |-> sticky \/ d.r # 0]

\* a \div 10^k, by halves of k down to four digits, and whether a remainder
\* was dropped
RECURSIVE BDivPow10(_, _, _)
BDivPow10(a, k, sticky) ==
    IF k <= 4 THEN BSticky(BDivSmall(a, 10^k), sticky)
    ELSE LET half == BDivPow10(a, k \div 2, sticky)
         IN  IF half.sticky THEN BDivPow10(half.q, k - k \div 2, TRUE)
             ELSE BDivPow10(half.q, k - k \div 2, FALSE)

\* the double nearest to (-1)^neg * (d.q + f) * 2^exp, f > 0 if d.sticky
float_of_quotient(neg, d, exp) == float_round(neg, d.q, exp, d.sticky)

\* the double nearest to (-1)^neg * n * 10^e, as float() gives for a decimal
\* string with the digits of n
float_of_scaled(neg, n, e) ==
    IF n = <<>> THEN float_canon(neg, <<>>, 0)
    ELSE IF e >= 0
        THEN (IF e > 400 THEN Inf(neg) ELSE float_round(neg, BMulPow10(n, e), 0, FALSE))
    ELSE IF 0 - e > (BBitLen(n) + 1100) \div 3 + 1 THEN float_canon(neg, <<>>, 0)
    ELSE float_of_quotient(neg, BDivPow10(BShl(n, 64 + 4 * (0 - e)), 0 - e, FALSE),
                           0 - (64 + 4 * (0 - e)))

\* float() of the decimal num / den, den a power of ten up to 10000: the
\* double nearest to it
float_of_decimal(num, den) ==
    float_of_quotient(num < 0,
                      BSticky(BDivSmall(BShl(BFromInt(IF num < 0 THEN 0 - num ELSE num), 70), den),
                              FALSE),
                      0 - 70)

\* float("d.dddd"): the double nearest to the decimal of `ticks` ten-thousandths
float_of_ticks(ticks) == float_of_decimal(ticks, 10000)

\* abs(x)
float_abs(x) == [x EXCEPT !.neg = FALSE]

\* -1, 0 or 1 as abs(x) is below, equal to or above abs(y); neither is nan
float_cmp_abs(x, y) ==
    LET e == IF x.exp < y.exp THEN x.exp ELSE y.exp IN
    IF ~is_finite(x) THEN (IF ~is_finite(y) THEN 0 ELSE 1)
    ELSE IF ~is_finite(y) THEN (0 - 1)
    ELSE BCmp(BShl(x.man, x.exp - e), BShl(y.man, y.exp - e))

\* the sum of (-1)^xneg * mx * 2^e and (-1)^yneg * my * 2^e, c telling how
\* mx compares to my
float_add_aligned(xneg, mx, yneg, my, e, c) ==
    float_round(IF xneg = yneg \/ c > 0 THEN xneg ELSE IF c < 0 THEN yneg ELSE FALSE,
                IF xneg = yneg THEN BAdd(mx, my)
                ELSE IF c >= 0 THEN BSub(mx, my)
                ELSE BSub(my, mx),
                e, FALSE)

\* the sum of the finite x and y, e the smaller of their exponents
float_add_finite(x, y, e) ==
    float_add_aligned(x.neg, BShl(x.man, x.exp - e), y.neg, BShl(y.man, y.exp - e), e,
                      BCmp(BShl(x.man, x.exp - e), BShl(y.man, y.exp - e)))

\* x + y
float_add(x, y) ==
    IF is_nan(x) \/ is_nan(y) THEN NaN
    ELSE IF ~is_finite(x) THEN (IF ~is_finite(y) /\ x.neg # y.neg THEN NaN ELSE x)
    ELSE IF ~is_finite(y) THEN y
    ELSE float_add_finite(x, y, IF x.exp < y.exp THEN x.exp ELSE y.exp)

\* x - y
float_sub(x, y) == float_add(x, IF is_nan(y) THEN y ELSE [y EXCEPT !.neg = ~y.neg])

\* x * y
float_mul(x, y) ==
    IF is_nan(x) \/ is_nan(y) THEN NaN
    ELSE IF ~is_finite(x) \/ ~is_finite(y)
        THEN (IF (is_finite(x) /\ x.man = <<>>) \/ (is_finite(y) /\ y.man = <<>>)
              THEN NaN ELSE Inf(x.neg # y.neg))
    ELSE float_round(x.neg # y.neg, BMul(x.man, y.man), x.exp + y.exp, FALSE)

\* x / y for a finite y # 0 whose mantissa is one limb (1e3 = 125 * 2^3)
float_div(x, y) ==
    IF is_nan(x) THEN NaN
    ELSE IF ~is_finite(x) THEN Inf(x.neg # y.neg)
    ELSE float_of_quotient(x.neg # y.neg,
                           BSticky(BDivSmall(BShl(x.man, 70), y.man[1]), FALSE),
                           x.exp - 70 - y.exp)

\* x == y
float_eq(x, y) ==
    /\ ~is_nan(x)
    /\ ~is_nan(y)
    /\ (is_finite(x) /\ x.man = <<>> /\ is_finite(y) /\ y.man = <<>>) \/ x = y

\* x < y
float_lt(x, y) ==
    IF is_nan(x) \/ is_nan(y) \/ float_eq(x, y) THEN FALSE
    ELSE IF x.neg # y.neg THEN x.neg
    ELSE float_cmp_abs(x, y) = (IF x.neg THEN 1 ELSE 0 - 1)

\* the natural number nearest to abs(x) * scale for a finite x, a tie of the
\* exact product to the even one; 0 < scale <= Limb
round_scaled(x, scale) == BRoundShift(BMulSmall(x.man, scale), 0 - x.exp, FALSE)

\* the digits of format(abs(x), '.3f') without the '.', as a number: abs(x)
\* in thousandths, by the decimal expansion of the double
format_3f(x) == round_scaled(x, 1000)

\* round(x, 3): the double nearest to the decimal format(x, '.3f') prints
round_3(x) == IF is_finite(x) THEN float_of_scaled(x.neg, format_3f(x), 0 - 3) ELSE x

----------------------------------------------------------------------------
(* float(str) *)

\* A str is the sequence of its characters, each a string: the character
\* itself up to U+00FF, and beyond that, where a TLA+ string cannot hold it,
\* the name of its code point, "U+0663" for the Arabic-Indic digit three.

\* float() reads the decimal digits of every script (Unicode 14.0, as
\* Python 3.11 has it): the characters of decimal value 0, 1, ..., 9
DecimalDigits == <<
    {"0", "U+0660", "U+06F0", "U+07C0", "U+0966", "U+09E6", "U+0A66",
     "U+0AE6", "U+0B66", "U+0BE6", "U+0C66", "U+0CE6", "U+0D66", "U+0DE6",
     "U+0E50", "U+0ED0", "U+0F20", "U+1040", "U+1090", "U+17E0", "U+1810",
     "U+1946", "U+19D0", "U+1A80", "U+1A90", "U+1B50", "U+1BB0", "U+1C40",
     "U+1C50", "U+A620", "U+A8D0", "U+A900", "U+A9D0", "U+A9F0", "U+AA50",
     "U+ABF0", "U+FF10", "U+104A0", "U+10D30", "U+11066", "U+110F0",
     "U+11136", "U+111D0", "U+112F0", "U+11450", "U+114D0", "U+11650",
     "U+116C0", "U+11730", "U+118E0", "U+11950", "U+11C50", "U+11D50",
     "U+11DA0", "U+16A60", "U+16AC0", "U+16B50", "U+1D7CE", "U+1D7D8",
     "U+1D7E2", "U+1D7EC", "U+1D7F6", "U+1E140", "U+1E2F0", "U+1E950",
     "U+1FBF0"},
    {"1", "U+0661", "U+06F1", "U+07C1", "U+0967", "U+09E7", "U+0A67",
     "U+0AE7", "U+0B67", "U+0BE7", "U+0C67", "U+0CE7", "U+0D67", "U+0DE7",
     "U+0E51", "U+0ED1", "U+0F21", "U+1041", "U+1091", "U+17E1", "U+1811",
     "U+1947", "U+19D1", "U+1A81", "U+1A91", "U+1B51", "U+1BB1", "U+1C41",
     "U+1C51", "U+A621", "U+A8D1", "U+A901", "U+A9D1", "U+A9F1", "U+AA51",
     "U+ABF1", "U+FF11", "U+104A1", "U+10D31", "U+11067", "U+110F1",
     "U+11137", "U+111D1", "U+112F1", "U+11451", "U+114D1", "U+11651",
     "U+116C1", "U+11731", "U+118E1", "U+11951", "U+11C51", "U+11D51",
     "U+11DA1", "U+16A61", "U+16AC1", "U+16B51", "U+1D7CF", "U+1D7D9",
     "U+1D7E3", "U+1D7ED", "U+1D7F7", "U+1E141", "U+1E2F1", "U+1E951",
     "U+1FBF1"},
    {"2", "U+0662", "U+06F2", "U+07C2", "U+0968", "U+09E8", "U+0A68",
     "U+0AE8", "U+0B68", "U+0BE8", "U+0C68", "U+0CE8", "U+0D68", "U+0DE8",
     "U+0E52", "U+0ED2", "U+0F22", "U+1042", "U+1092", "U+17E2", "U+1812",
     "U+1948", "U+19D2", "U+1A82", "U+1A92", "U+1B52", "U+1BB2", "U+1C42",
     "U+1C52", "U+A622", "U+A8D2", "U+A902", "U+A9D2", "U+A9F2", "U+AA52",
     "U+ABF2", "U+FF12", "U+104A2", "U+10D32", "U+11068", "U+110F2",
     "U+11138", "U+111D2", "U+112F2", "U+11452", "U+114D2", "U+11652",
     "U+116C2", "U+11732", "U+118E2", "U+11952", "U+11C52", "U+11D52",
     "U+11DA2", "U+16A62", "U+16AC2", "U+16B52", "U+1D7D0", "U+1D7DA",
     "U+1D7E4", "U+1D7EE", "U+1D7F8", "U+1E142", "U+1E2F2", "U+1E952",
     "U+1FBF2"},
    {"3", "U+0663", "U+06F3", "U+07C3", "U+0969", "U+09E9", "U+0A69",
     "U+0AE9", "U+0B69", "U+0BE9", "U+0C69", "U+0CE9", "U+0D69", "U+0DE9",
     "U+0E53", "U+0ED3", "U+0F23", "U+1043", "U+1093", "U+17E3", "U+1813",
     "U+1949", "U+19D3", "U+1A83", "U+1A93", "U+1B53", "U+1BB3", "U+1C43",
     "U+1C53", "U+A623", "U+A8D3", "U+A903", "U+A9D3", "U+A9F3", "U+AA53",
     "U+ABF3", "U+FF13", "U+104A3", "U+10D33", "U+11069", "U+110F3",
     "U+11139", "U+111D3", "U+112F3", "U+11453", "U+114D3", "U+11653",
     "U+116C3", "U+11733", "U+118E3", "U+11953", "U+11C53", "U+11D53",
     "U+11DA3", "U+16A63", "U+16AC3", "U+16B53", "U+1D7D1", "U+1D7DB",
     "U+1D7E5", "U+1D7EF", "U+1D7F9", "U+1E143", "U+1E2F3", "U+1E953",
     "U+1FBF3"},
    {"4", "U+0664", "U+06F4", "U+07C4", "U+096A", "U+09EA", "U+0A6A",
     "U+0AEA", "U+0B6A", "U+0BEA", "U+0C6A", "U+0CEA", "U+0D6A", "U+0DEA",
     "U+0E54", "U+0ED4", "U+0F24", "U+1044", "U+1094", "U+17E4", "U+1814",
     "U+194A", "U+19D4", "U+1A84", "U+1A94", "U+1B54", "U+1BB4", "U+1C44",
     "U+1C54", "U+A624", "U+A8D4", "U+A904", "U+A9D4", "U+A9F4", "U+AA54",
     "U+ABF4", "U+FF14", "U+104A4", "U+10D34", "U+1106A", "U+110F4",
     "U+1113A", "U+111D4", "U+112F4", "U+11454", "U+114D4", "U+11654",
     "U+116C4", "U+11734", "U+118E4", "U+11954", "U+11C54", "U+11D54",
     "U+11DA4", "U+16A64", "U+16AC4", "U+16B54", "U+1D7D2", "U+1D7DC",
     "U+1D7E6", "U+1D7F0", "U+1D7FA", "U+1E144", "U+1E2F4", "U+1E954",
     "U+1FBF4"},
    {"5", "U+0665", "U+06F5", "U+07C5", "U+096B", "U+09EB", "U+0A6B",
     "U+0AEB", "U+0B6B", "U+0BEB", "U+0C6B", "U+0CEB", "U+0D6B", "U+0DEB",
     "U+0E55", "U+0ED5", "U+0F25", "U+1045", "U+1095", "U+17E5", "U+1815",
     "U+194B", "U+19D5", "U+1A85", "U+1A95", "U+1B55", "U+1BB5", "U+1C45",
     "U+1C55", "U+A625", "U+A8D5", "U+A905", "U+A9D5", "U+A9F5", "U+AA55",
     "U+ABF5", "U+FF15", "U+104A5", "U+10D35", "U+1106B", "U+110F5",
     "U+1113B", "U+111D5", "U+112F5", "U+11455", "U+114D5", "U+11655",
     "U+116C5", "U+11735", "U+118E5", "U+11955", "U+11C55", "U+11D55",
     "U+11DA5", "U+16A65", "U+16AC5", "U+16B55", "U+1D7D3", "U+1D7DD",
     "U+1D7E7", "U+1D7F1", "U+1D7FB", "U+1E145", "U+1E2F5", "U+1E955",
     "U+1FBF5"},
    {"6", "U+0666", "U+06F6", "U+07C6", "U+096C", "U+09EC", "U+0A6C",
     "U+0AEC", "U+0B6C", "U+0BEC", "U+0C6C", "U+0CEC", "U+0D6C", "U+0DEC",
     "U+0E56", "U+0ED6", "U+0F26", "U+1046", "U+1096", "U+17E6", "U+1816",
     "U+194C", "U+19D6", "U+1A86", "U+1A96", "U+1B56", "U+1BB6", "U+1C46",
     "U+1C56", "U+A626", "U+A8D6", "U+A906", "U+A9D6", "U+A9F6", "U+AA56",
     "U+ABF6", "U+FF16", "U+104A6", "U+10D36", "U+1106C", "U+110F6",
     "U+1113C", "U+111D6", "U+112F6", "U+11456", "U+114D6", "U+11656",
     "U+116C6", "U+11736", "U+118E6", "U+11956", "U+11C56", "U+11D56",
     "U+11DA6", "U+16A66", "U+16AC6", "U+16B56", "U+1D7D4", "U+1D7DE",
     "U+1D7E8", "U+1D7F2", "U+1D7FC", "U+1E146", "U+1E2F6", "U+1E956",
     "U+1FBF6"},
    {"7", "U+0667", "U+06F7", "U+07C7", "U+096D", "U+09ED", "U+0A6D",
     "U+0AED", "U+0B6D", "U+0BED", "U+0C6D", "U+0CED", "U+0D6D", "U+0DED",
     "U+0E57", "U+0ED7", "U+0F27", "U+1047", "U+1097", "U+17E7", "U+1817",
     "U+194D", "U+19D7", "U+1A87", "U+1A97", "U+1B57", "U+1BB7", "U+1C47",
     "U+1C57", "U+A627", "U+A8D7", "U+A907", "U+A9D7", "U+A9F7", "U+AA57",
     "U+ABF7", "U+FF17", "U+104A7", "U+10D37", "U+1106D", "U+110F7",
     "U+1113D", "U+111D7", "U+112F7", "U+11457", "U+114D7", "U+11657",
     "U+116C7", "U+11737", "U+118E7", "U+11957", "U+11C57", "U+11D57",
     "U+11DA7", "U+16A67", "U+16AC7", "U+16B57", "U+1D7D5", "U+1D7DF",
     "U+1D7E9", "U+1D7F3", "U+1D7FD", "U+1E147", "U+1E2F7", "U+1E957",
     "U+1FBF7"},
    {"8", "U+0668", "U+06F8", "U+07C8", "U+096E", "U+09EE", "U+0A6E",
     "U+0AEE", "U+0B6E", "U+0BEE", "U+0C6E", "U+0CEE", "U+0D6E", "U+0DEE",
     "U+0E58", "U+0ED8", "U+0F28", "U+1048", "U+1098", "U+17E8", "U+1818",
     "U+194E", "U+19D8", "U+1A88", "U+1A98", "U+1B58", "U+1BB8", "U+1C48",
     "U+1C58", "U+A628", "U+A8D8", "U+A908", "U+A9D8", "U+A9F8", "U+AA58",
     "U+ABF8", "U+FF18", "U+104A8", "U+10D38", "U+1106E", "U+110F8",
     "U+1113E", "U+111D8", "U+112F8", "U+11458", "U+114D8", "U+11658",
     "U+116C8", "U+11738", "U+118E8", "U+11958", "U+11C58", "U+11D58",
     "U+11DA8", "U+16A68", "U+16AC8", "U+16B58", "U+1D7D6", "U+1D7E0",
     "U+1D7EA", "U+1D7F4", "U+1D7FE", "U+1E148", "U+1E2F8", "U+1E958",
     "U+1FBF8"},
    {"9", "U+0669", "U+06F9", "U+07C9", "U+096F", "U+09EF", "U+0A6F",
     "U+0AEF", "U+0B6F", "U+0BEF", "U+0C6F", "U+0CEF", "U+0D6F", "U+0DEF",
     "U+0E59", "U+0ED9", "U+0F29", "U+1049", "U+1099", "U+17E9", "U+1819",
     "U+194F", "U+19D9", "U+1A89", "U+1A99", "U+1B59", "U+1BB9", "U+1C49",
     "U+1C59", "U+A629", "U+A8D9", "U+A909", "U+A9D9", "U+A9F9", "U+AA59",
     "U+ABF9", "U+FF19", "U+104A9", "U+10D39", "U+1106F", "U+110F9",
     "U+1113F", "U+111D9", "U+112F9", "U+11459", "U+114D9", "U+11659",
     "U+116C9", "U+11739", "U+118E9", "U+11959", "U+11C59", "U+11D59",
     "U+11DA9", "U+16A69", "U+16AC9", "U+16B59", "U+1D7D7", "U+1D7E1",
     "U+1D7EB", "U+1D7F5", "U+1D7FF", "U+1E149", "U+1E2F9", "U+1E959",
     "U+1FBF9"}
>>

IsDigit(c) == \E k \in 1..10 : c \in DecimalDigits[k]

DigitVal(c) == (CHOOSE k \in 1..10 : c \in DecimalDigits[k]) - 1

\* s without the white space float() drops at either end: the ASCII blanks
\* space, \t, \n, U+000B, \f and \r, and beyond ASCII the white space of
\* Unicode, from U+0085 and U+00A0 on (U+001C to U+001F are white space to
\* str.isspace() but not to float())
StrStrip(s) ==
    LET keep == {k \in 1..Len(s) :
                    s[k] \notin {"\t", "\n", "", "\f", "\r", " ",
                                 "", " ",
                                 "U+1680", "U+2000", "U+2001", "U+2002", "U+2003", "U+2004",
                                 "U+2005", "U+2006", "U+2007", "U+2008", "U+2009", "U+200A",
                                 "U+2028", "U+2029", "U+202F", "U+205F", "U+3000"}}
    IN  IF keep = {} THEN <<>>
        ELSE SubSeq(s, CHOOSE k \in keep : \A j \in keep : k <= j,
                       CHOOSE k \in keep : \A j \in keep : j <= k)

\* an underscore only between two digits
UnderscoresOk(s) ==
    \A k \in 1..Len(s) :
        s[k] = "_" => /\ 1 < k
                      /\ k < Len(s)
                      /\ IsDigit(s[k - 1])
                      /\ IsDigit(s[k + 1])

\* the letters of inf, infinity and nan, in lower case
AsciiLower(c) ==
    CASE c = "I" -> "i" [] c = "N" -> "n" [] c = "F" -> "f" [] c = "T" -> "t"
      [] c = "Y" -> "y" [] c = "A" -> "a" [] OTHER -> c

\* index of the last digit of the run of digits of s that starts at k
\* (k - 1 if s[k] is no digit)
SpanDigits(s, k) ==
    LET stops == {j \in k..Len(s) : ~IsDigit(s[j])}
    IN  IF stops = {} THEN Len(s) ELSE (CHOOSE j \in stops : \A i \in stops : j <= i) - 1

\* the number a string of digits spells, by halves down to four digits
RECURSIVE BOfDigits(_)
BOfDigits(digits) ==
    IF Len(digits) <= 4
    THEN BFromInt(IF digits = <<>> THEN 0
                  ELSE LET v[k \in 1..Len(digits)] ==
                               IF k = 1 THEN DigitVal(digits[1])
                               ELSE 10 * v[k - 1] + DigitVal(digits[k])
                       IN  v[Len(digits)])
    ELSE LET mid == Len(digits) \div 2
             hi == BOfDigits(SubSeq(digits, 1, mid))
             lo == BOfDigits(SubSeq(digits, mid + 1, Len(digits)))
         IN  IF hi = <<>> THEN lo
             ELSE IF lo = <<>> THEN BMulPow10(hi, Len(digits) - mid)
             ELSE BAdd(BMulPow10(hi, Len(digits) - mid), lo)

\* the exponent a string of digits spells: exact up to nine digits after
\* its leading zeros, and 1100000000 for more (the cap of the conversion)
ExpOfDigits(digits) ==
    LET nonzero == {k \in 1..Len(digits) : DigitVal(digits[k]) # 0}
        first == CHOOSE k \in nonzero : \A j \in nonzero : k <= j
    IN  IF nonzero = {} THEN 0
        ELSE IF Len(digits) - first + 1 > 9 THEN 1100000000
        ELSE BToInt(BOfDigits(SubSeq(digits, first, Len(digits))))

\* the ValueError of float(s)
float_error(s) == Raise(Exc("ValueError", "could not convert string to float: {}", s))

\* the digits of u from i0 to i1 and, after a point, to i2; the number of
\* digits after the point; the index the mantissa ends at
mantissa(u, i0, i1, i2) ==
    [digits |-> SubSeq(u, i0, i1) \o SubSeq(u, i1 + 2, i2),
     scale |-> IF i2 > i1 THEN i2 - i1 - 1 ELSE 0,
     end |-> i2]

\* the mantissa of u from i0, its digits before the point ending at i1
mantissa_at(u, i0, i1) ==
    mantissa(u, i0, i1,
             IF i1 < Len(u) /\ u[i1 + 1] = "." THEN SpanDigits(u, i1 + 2) ELSE i1)

\* the exponent the digits of u from i3 to i4 spell, if there is a digit;
\* the index it ends at
exponent(u, i3, i4, neg) ==
    [ok |-> i4 >= i3,
     val |-> (IF neg THEN 0 - 1 ELSE 1) * ExpOfDigits(SubSeq(u, i3, i4)),
     end |-> i4]

\* the exponent part of u after a mantissa that ends at i2: e or E, a sign,
\* digits
exponent_at(u, i2) ==
    LET hasexp == i2 < Len(u) /\ u[i2 + 1] \in {"e", "E"}
        expsigned == hasexp /\ i2 + 1 < Len(u) /\ u[i2 + 2] \in {"+", "-"}
        i3 == IF expsigned THEN i2 + 3 ELSE i2 + 2
    IN  IF hasexp THEN exponent(u, i3, SpanDigits(u, i3), expsigned /\ u[i2 + 2] = "-")
        ELSE [ok |-> TRUE, val |-> 0, end |-> i2]

\* float(s) from the mantissa m and exponent e of u: a digit before or
\* after the point, nothing after the exponent
float_of_parts(s, u, neg, m, e) ==
    IF m.digits = <<>> \/ ~e.ok \/ e.end # Len(u) THEN float_error(s)
    ELSE Return(float_of_scaled(neg, BOfDigits(m.digits), e.val - m.scale))

float_of_mantissa(s, u, neg, m) == float_of_parts(s, u, neg, m, exponent_at(u, m.end))

\* float(s) for what follows the sign, from i0: inf, infinity or nan in any
\* case, or digits [. digits] [exponent]
float_of_unsigned(s, u, neg, i0) ==
    LET word == [k \in 1..(Len(u) - i0 + 1) |-> AsciiLower(u[k + i0 - 1])]
    IN  IF word \in {<<"i", "n", "f">>, <<"i", "n", "f", "i", "n", "i", "t", "y">>}
        THEN Return(Inf(neg))
        ELSE IF word = <<"n", "a", "n">> THEN Return(NaN)
        ELSE float_of_mantissa(s, u, neg, mantissa_at(u, i0, SpanDigits(u, i0)))

\* float(s) for s without blanks around it, t, and u, t without underscores:
\* an underscore only between digits, then an optional sign
float_of_stripped(s, t, u) ==
    IF ~UnderscoresOk(t) THEN float_error(s)
    ELSE float_of_unsigned(s, u, u # <<>> /\ u[1] = "-",
                           IF u # <<>> /\ u[1] \in {"+", "-"} THEN 2 ELSE 1)

\* float(s) for a str s
float_of_str(s) ==
    float_of_stripped(s, StrStrip(s), SelectSeq(StrStrip(s), LAMBDA c : c # "_"))

----------------------------------------------------------------------------
(* The file and pandas.read_csv *)

\* A column, of the file or of the frame.  pandas gives a column whose cells
\* all parse as numbers a numeric dtype (cells in num: ticks in the file,
\* floats in the frame) and any other column, also one with no rows, dtype
\* object (cells in txt, as read).
NumCol(cells) == [dtype |-> "number", num |-> cells, txt |-> <<>>]
ObjCol(cells) == [dtype |-> "object", num |-> <<>>, txt |-> cells]

RowCount(col) == IF col.dtype = "number" THEN Len(col.num) ELSE Len(col.txt)

\* the cells of a numeric column of the file as float64
parse_column(col) ==
    IF col.dtype = "number"
    THEN NumCol([k \in 1..Len(col.num) |-> float_of_ticks(col.num[k])])
    ELSE col

\* pd.read_csv(self._filepath, delimiter=';', quotechar='|') on what the
\* disk holds: the exception class pandas raises, or the frame.
read_csv(fp, d) ==
    IF fp.t # "str" THEN Raise(Exc("ValueError", "pandas", <<>>))
    ELSE CASE d.kind = "absent"    -> Raise(Exc("FileNotFoundError", "pandas", <<>>))
           [] d.kind = "directory" -> Raise(Exc("IsADirectoryError", "pandas", <<>>))
           [] d.kind = "empty"     -> Raise(Exc("EmptyDataError", "pandas", <<>>))
           [] d.kind = "binary"    -> Raise(Exc("UnicodeDecodeError", "pandas", <<>>))
           [] d.kind = "ragged"    -> Raise(Exc("ParserError", "pandas", <<>>))
           [] OTHER                -> Return([columns |-> d.header,
                                              data |-> [k \in 1..Len(d.cols) |-> parse_column(d.cols[k])]])

\* CSVDataManager._load_data: the except clauses in their order
load_data(fp, d) ==
    LET r == read_csv(fp, d)
        c == r.exc.cls
    IN  IF ~Raised(r) THEN r
        ELSE IF IsInstance(c, "FileNotFoundError")
            THEN Raise(Exc("FileNotFoundError", "The file {} was not found.", fp.s))
        ELSE IF IsInstance(c, "EmptyDataError")
            THEN Raise(Exc("EmptyDataError", "No columns to parse from file: {}", fp.s))
        ELSE IF IsInstance(c, "UnicodeDecodeError")
            THEN Raise(Exc("ValueError", "Invalid file type: {}", Suffix(fp.s)))
        ELSE IF IsInstance(c, "ValueError")
            THEN Raise(Exc("ValueError", "Invalid file path or buffer object type: {}", IF fp.t = "str" THEN <<"<class 'str'>">> ELSE <<"<class 'int'>">>))
        ELSE IF IsInstance(c, "TypeError")
            THEN Raise(Exc("TypeError", "Missing 1 required positional argument: 'filepath", <<>>))
        ELSE Raise(Exc("Exception", "An unexpected error occurred: {}", <<c>>))

Call(op, idx, hdr, r) == [op |-> op, idx |-> idx, hdr |-> hdr, exc |-> r.exc, ret |-> r.val]

\* CSVDataManager(filepath, prefix): __init__.  A call without filepath is
\* refused by the interpreter before the body runs.
Construct ==
    /\ pc = "new"
    /\ LET r == IF filepath.t = "missing"
                THEN Raise(Exc("TypeError", "missing 1 required positional argument: {}", <<"filepath">>))
                ELSE load_data(filepath, disk)
       IN  /\ last' = Call("__init__", NoneArg, NoneArg, Raise(r.exc))
           /\ IF Raised(r)
              THEN /\ pc' = "failed"
                   /\ UNCHANGED <<dataframe, nr_of_data, loaded>>
              ELSE /\ pc' = "loaded"
                   /\ dataframe' = r.val
                   /\ loaded' = TRUE
                   /\ nr_of_data' = Len(r.val.columns)
    /\ UNCHANGED <<filepath, disk, prefix>>

----------------------------------------------------------------------------
(* Accessor *)

header_list == dataframe.columns

index_list == [k \in 1..Len(header_list) |-> k - 1]

validate_index(idx) ==
    IF idx.t = "int" /\ (idx.i < 0 \/ nr_of_data <= idx.i)
    THEN Raise(Exc("IndexError", "Index '{}' out of range.", <<idx.i>>))
    ELSE Return(<<>>)

validate_header(hdr) ==
    IF hdr.t = "str" /\ hdr.s \notin Range(header_list)
    THEN Raise(Exc("ValueError", "Header '{}' not found", hdr.s))
    ELSE Return(<<>>)

validate_input(idx, hdr) ==
    IF Raised(validate_index(idx)) THEN validate_index(idx)
    ELSE IF Raised(validate_header(hdr)) THEN validate_header(hdr)
    ELSE IF idx.t = "None" /\ hdr.t = "None"
        THEN Raise(Exc("ValueError", "An index or header name must be provided.", <<>>))
    ELSE IF idx.t # "None" /\ hdr.t # "None"
        THEN Raise(Exc("ValueError", "Only one of index or header name should be provided.", <<>>))
    ELSE IF hdr.t = "None" /\ idx.t # "int"
        THEN Raise(Exc("ValueError", "Did you mean to provide the hdr? (hdr= )", <<>>))
    ELSE IF idx.t = "None" /\ hdr.t # "str"
        THEN Raise(Exc("ValueError", "Did you mean to provide the idx? (idx= )", <<>>))
    ELSE Return(<<>>)

\* get_loc with the position counted from 1
get_loc_from_one(header) == CHOOSE k \in 1..Len(header_list) : header_list[k] = header

\* Index.get_loc(header): the position, from 0, of the column named header
get_loc(header) == (CHOOSE k \in 1..Len(header_list) : header_list[k] = header) - 1

\* get_data_by_header reading the first column whatever the header
get_data_by_header_first(header) ==
    IF Raised(validate_header(StrArg(header))) THEN validate_header(StrArg(header))
    ELSE Return(dataframe.data[1])

\* self._dataframe.get(header)
get_data_by_header(header) ==
    IF Raised(validate_header(StrArg(header))) THEN validate_header(StrArg(header))
    ELSE Return(dataframe.data[get_loc(header) + 1])

\* self._dataframe.iloc[:, index]
get_data_by_index(index) ==
    IF Raised(validate_index(IntArg(index))) THEN validate_index(IntArg(index))
    ELSE Return(dataframe.data[index + 1])

get_raw_data(idx, hdr) ==
    IF Raised(validate_input(idx, hdr)) THEN validate_input(idx, hdr)
    ELSE IF idx.t # "None" THEN get_data_by_index(idx.i)
    ELSE get_data_by_header(hdr.s)

\* str(self._dataframe.columns[index]) for an int index
get_header(index) ==
    IF Raised(validate_index(IntArg(index))) THEN validate_index(IntArg(index))
    ELSE Return(header_list[index + 1])

\* int(self._dataframe.columns.get_loc(header)) for a str header
get_index(header) ==
    IF Raised(validate_header(StrArg(header))) THEN validate_header(StrArg(header))
    ELSE Return(get_loc(header))

\* [float(value) for value in data] from the cell at position k on: the
\* floats, or the exception of the first cell float() refuses
RECURSIVE floats_of(_, _, _)
RECURSIVE floats_append(_, _, _, _)
floats_of(txt, k, acc) ==
    IF k > Len(txt) THEN Return(acc)
    ELSE floats_append(txt, k, acc, float_of_str(txt[k]))

\* the list with the float f of the cell at position k, and on
floats_append(txt, k, acc, f) ==
    IF Raised(f) THEN f ELSE floats_of(txt, k + 1, Append(acc, f.val))

get_data(idx, hdr) ==
    LET r == get_raw_data(idx, hdr) IN
    IF Raised(r) THEN r
    ELSE IF r.val.dtype = "number" THEN Return(r.val.num)
    ELSE floats_of(r.val.txt, 1, <<>>)

----------------------------------------------------------------------------
(* Classifier *)

Sep == <<":", ":">>

NoneKey == [none |-> TRUE, name |-> <<>>]
StrKey(name) == [none |-> FALSE, name |-> name]

\* The loop body of headers_mapping up to the unpacking: the header without
\* the prefix, split on "::" into (group_header, header_key).
split_header(header) ==
    LET strpped_header == IF StrIn(prefix, header) THEN StrRemove(header, prefix) ELSE header
    IN  IF StrIn(Sep, strpped_header)
        THEN LET parts == StrSplit(strpped_header, Sep) IN
             IF Len(parts) # 2
             THEN Raise(Exc("ValueError", "too many values to unpack (expected 2)", <<>>))
             ELSE Return([group |-> StrKey(parts[1]), key |-> parts[2]])
        ELSE Return([group |-> NoneKey, key |-> strpped_header])

\* hdr_mapping.setdefault(group, []).append(item) on a dict kept as the
\* sequence of its (key, list) pairs in insertion order
setdefault_append(m, group, item) ==
    IF \E k \in 1..Len(m) : m[k].group = group
    THEN [k \in 1..Len(m) |->
            IF m[k].group = group THEN [m[k] EXCEPT !.items = Append(@, item)] ELSE m[k]]
    ELSE Append(m, [group |-> group, items |-> <<item>>])

RECURSIVE headers_mapping_loop(_, _)
headers_mapping_loop(k, m) ==
    IF k > Len(header_list) THEN Return(m)
    ELSE LET r == split_header(header_list[k]) IN
         IF Raised(r) THEN r
         ELSE headers_mapping_loop(k + 1, setdefault_append(m, r.val.group, <<r.val.key, k - 1>>))

headers_mapping == headers_mapping_loop(1, <<>>)

\* (datafram_col == datafram_col.iloc[0]).all() for a column with a row
all_equal_first(col) ==
    IF col.dtype = "number"
    THEN \A k \in 1..Len(col.num) : float_eq(col.num[k], col.num[1])
    ELSE \A k \in 1..Len(col.txt) : col.txt[k] = col.txt[1]

\* (self._dataframe[column] == 0).all()
all_zero(col) ==
    IF col.dtype = "number"
    THEN \A k \in 1..Len(col.num) : float_eq(col.num[k], float_of_ticks(0))
    ELSE Len(col.txt) = 0

const_data_index_list ==
    IF \E k \in 1..Len(dataframe.data) : RowCount(dataframe.data[k]) = 0
    THEN Raise(Exc("IndexError", "single positional indexer is out-of-bounds", <<>>))
    ELSE Return(SelectSeq(index_list, LAMBDA i : all_equal_first(dataframe.data[i + 1])))

const_zero_data_index_list ==
    Return(SelectSeq(index_list, LAMBDA i : all_zero(dataframe.data[i + 1])))

\* [set(self.const_data_index_list) ^ set(self.index_list)]
varying_data_index_list ==
    LET c == const_data_index_list IN
    IF Raised(c) THEN c
    ELSE LET cs == Range(c.val)
             is == Range(index_list)
         IN  Return(<<[set |-> (cs \ is) \cup (is \ cs)]>>)

----------------------------------------------------------------------------
(* Transform *)

\* min(data) of a non-empty sequence of floats: the first of the elements
\* no other is below
RECURSIVE min_from(_, _, _)
min_from(s, k, cur) ==
    IF k > Len(s) THEN cur
    ELSE min_from(s, k + 1, IF float_lt(s[k], cur) THEN s[k] ELSE cur)

SeqMin(s) == min_from(s, 2, s[1])

\* max(data) of a non-empty sequence of floats: the first of the elements
\* no other is above
RECURSIVE max_from(_, _, _)
max_from(s, k, cur) ==
    IF k > Len(s) THEN cur
    ELSE max_from(s, k + 1, IF float_lt(cur, s[k]) THEN s[k] ELSE cur)

SeqMax(s) == max_from(s, 2, s[1])

\* the subtraction get_data_extrema reaches with the str cells of an object
\* column: min_val - 1.0 when all cells are equal, else max_val - min_val
str_minus(txt) ==
    Raise(Exc("TypeError", "unsupported operand type(s) for -: {} and {}",
              IF \A k \in 1..Len(txt) : txt[k] = txt[1]
              THEN <<"str", "float">> ELSE <<"str", "str">>))

\* round(min_val - buffer, 3), round(max_val + buffer, 3)
padded_extrema(min_val, max_val, buffer) ==
    Return(<<round_3(float_sub(min_val, buffer)), round_3(float_add(max_val, buffer))>>)

\* the extrema with buffer = abs(0.05 * (max_val - min_val)), also for a
\* constant signal
extrema_no_constant(min_val, max_val) ==
    padded_extrema(min_val, max_val,
                   float_abs(float_mul(float_of_ticks(500), float_sub(max_val, min_val))))

\* lines 185-190 of get_data_extrema
extrema(min_val, max_val) ==
    IF float_eq(min_val, max_val)
    THEN Return(<<float_sub(min_val, float_of_ticks(10000)),
                  float_add(max_val, float_of_ticks(10000))>>)
    ELSE padded_extrema(min_val, max_val,
                        float_abs(float_mul(float_of_ticks(500), float_sub(max_val, min_val))))

\* get_data_extrema without the branch for a constant signal
get_data_extrema_no_constant(idx, hdr) ==
    LET r == get_raw_data(idx, hdr) IN
    IF Raised(r) THEN r
    ELSE IF RowCount(r.val) = 0
        THEN Raise(Exc("ValueError", "min() arg is an empty sequence", <<>>))
    ELSE IF r.val.dtype # "number" THEN str_minus(r.val.txt)
    ELSE extrema_no_constant(SeqMin(r.val.num), SeqMax(r.val.num))

get_data_extrema(idx, hdr) ==
    LET r == get_raw_data(idx, hdr) IN
    IF Raised(r) THEN r
    ELSE IF RowCount(r.val) = 0
        THEN Raise(Exc("ValueError", "min() arg is an empty sequence", <<>>))
    ELSE IF r.val.dtype # "number" THEN str_minus(r.val.txt)
    ELSE extrema(SeqMin(r.val.num), SeqMax(r.val.num))

\* float(n) of a natural number below 2^31
float_of_int(n) == float_round(FALSE, BFromInt(n), 0, FALSE)

\* the integer a float with an integral value holds, as sign and magnitude
int_of_float(x) == [neg |-> x.neg, mag |-> BShl(x.man, x.exp)]

\* the float of the whole part of x, towards zero: modf(x)[1]
float_trunc(x) ==
    IF x.exp >= 0 THEN x ELSE float_canon(x.neg, BShr(x.man, 0 - x.exp), 0)

\* the microseconds of the fraction of a timestamp, floatpart being the
\* fraction times 1e6: rounded half to even
microseconds(floatpart) ==
    (IF floatpart.neg THEN 0 - 1 ELSE 1) * BToInt(round_scaled(floatpart, 1))

\* the whole seconds (a float) and the microseconds of a timestamp, 1000000
\* microseconds or less than 0 carried into the seconds
timeval_carry(intpart, us) ==
    IF us >= 1000000
    THEN [sec |-> float_add(intpart, float_of_int(1)), us |-> us - 1000000]
    ELSE IF us < 0
    THEN [sec |-> float_sub(intpart, float_of_int(1)), us |-> us + 1000000]
    ELSE [sec |-> intpart, us |-> us]

\* the bits of the platform's time_t below the sign
TimeTBits == 63

\* the days from 0001-01-01 to the epoch and from the epoch to 9999-12-31:
\* the dates a datetime holds
MinDay == 719162
MaxDay == 2932896

\* the days before and after the epoch of the years gmtime holds in the int
\* tm_year: -2147481748-01-01 and 2147485547-12-31
GmtimeMinDay == BOfDigits(<<"7", "8", "4", "3", "5", "2", "3", "2", "1", "8", "7", "2">>)
GmtimeMaxDay == BOfDigits(<<"7", "8", "4", "3", "5", "2", "2", "7", "0", "7", "3", "6">>)

\* the day and second of the day of a second counted from the epoch, d
\* its magnitude \div 128 over 675 and low its magnitude % 128
\* (86400 = 128 * 675): for a second before the epoch the day before
floor_day(neg, d, low) ==
    IF ~neg THEN [neg |-> FALSE, day |-> d.q, sod |-> d.r * 128 + low]
    ELSE IF d.r * 128 + low = 0 THEN [neg |-> TRUE, day |-> d.q, sod |-> 0]
    ELSE [neg |-> TRUE, day |-> BAdd(d.q, <<1>>), sod |-> 86400 - (d.r * 128 + low)]

\* the day, as sign and magnitude, and the second of the day (0..86399) of
\* the second timet counted from the epoch
day_and_second(timet) ==
    floor_day(timet.neg /\ timet.mag # <<>>,
              BDivSmall(BShr(timet.mag, 7), 675),
              BLimb(timet.mag, 1) % 128)

\* str(datetime).split()[1].split(':') as floats for the day and second ds
\* and the microseconds us: OSError where gmtime fails, ValueError for a
\* year no datetime holds
time_of_day(ds, us) ==
    IF BCmp(ds.day, IF ds.neg THEN GmtimeMinDay ELSE GmtimeMaxDay) > 0
    THEN Raise(Exc("OSError", "[Errno 75] Value too large for defined data type", <<>>))
    ELSE IF BCmp(ds.day, BFromInt(IF ds.neg THEN MinDay ELSE MaxDay)) > 0
    THEN Raise(Exc("ValueError", "year is out of range", <<>>))
    ELSE Return(<<float_of_int(ds.sod \div 3600),
                  float_of_int((ds.sod \div 60) % 60),
                  IF us = 0 THEN float_of_int(ds.sod % 60)
                  ELSE float_of_scaled(FALSE, BFromInt((ds.sod % 60) * 1000000 + us), 0 - 6)>>)

\* the time of day of the seconds and microseconds tv: OverflowError for
\* seconds outside time_t
from_timeval(tv) ==
    IF BBitLen(int_of_float(tv.sec).mag) > TimeTBits
        /\ ~(tv.sec.neg /\ int_of_float(tv.sec).mag = BShl(<<1>>, TimeTBits))
    THEN Raise(Exc("OverflowError", "timestamp out of range for platform time_t", <<>>))
    ELSE time_of_day(day_and_second(int_of_float(tv.sec)), tv.us)

\* str(datetime.datetime.utcfromtimestamp(t)).split()[1].split(':') as floats
utcfromtimestamp(t) ==
    from_timeval(timeval_carry(float_trunc(t),
                               microseconds(float_mul(float_sub(t, float_trunc(t)),
                                                      float_of_int(1000000)))))

\* f / 1e3 for the float f of an int
over_1e3(f) ==
    IF ~is_finite(f)
    THEN Raise(Exc("OverflowError", "int too large to convert to float", <<>>))
    ELSE Return(float_div(f, float_of_int(1000)))

\* int(str(raw_time).replace('.', '')) / 1e3 for the digits ms of
\* format(raw_time, '.3f'): the int as a float, over 1000.0
int_over_1e3(neg, ms) == over_1e3(float_round(neg /\ ms # <<>>, ms, 0, FALSE))

\* the try block of _parse_time once int() has read the digits
try_parse_time(t) == IF Raised(t) THEN t ELSE utcfromtimestamp(t.val)

\* except ValueError: str(raw_time).split()[1] of a str without a blank
except_value_error(r) ==
    IF r.exc.cls = "ValueError"
    THEN Raise(Exc("IndexError", "list index out of range", <<>>))
    ELSE r

\* CSVDataManager._parse_time: (hours, minutes, seconds), as floats, of the
\* UTC time of day of raw_time seconds after the epoch, or the exception.
\* int() raises ValueError on the 'inf' and 'nan' format() prints.
parse_time(raw_time) ==
    except_value_error(
        IF ~is_finite(raw_time)
        THEN Raise(Exc("ValueError", "invalid literal for int() with base 10", <<>>))
        ELSE try_parse_time(int_over_1e3(raw_time.neg, format_3f(raw_time))))

\* round((hr - time_offset[0]) * 3600 + (_min - time_offset[1]) * 60 + sec
\* - time_offset[2], 3) for the parsed time p
seconds_since(p, time_offset) ==
    IF Raised(p) THEN p
    ELSE Return(round_3(float_sub(
            float_add(float_add(float_mul(float_sub(p.val[1], time_offset[1]), float_of_int(3600)),
                                float_mul(float_sub(p.val[2], time_offset[2]), float_of_int(60))),
                      p.val[3]),
            time_offset[3])))

calculate_time_in_seconds(raw_time, time_offset) ==
    seconds_since(parse_time(raw_time), time_offset)

TimeIndex == <<"t", "i", "m", "e", " ", "i", "n", "d", "e", "x">>

\* the loop of time_data_list over data from position k on: the list, or
\* the exception of the first row _calculate_time_in_seconds fails on
RECURSIVE time_data_from(_, _, _, _)
RECURSIVE time_data_append(_, _, _, _, _)
time_data_from(data, k, time_offset, acc) ==
    IF k > Len(data) THEN Return(acc)
    ELSE time_data_append(data, k, time_offset, acc,
                          calculate_time_in_seconds(data[k], time_offset))

\* time_data.append(...) of the loop
time_data_append(data, k, time_offset, acc, c) ==
    IF Raised(c) THEN c
    ELSE time_data_from(data, k + 1, time_offset, Append(acc, c.val))

\* time_data_list from the parsed first row on: the loop over the rows from
\* position k
time_data_loop(data, time_offset, k) ==
    IF Raised(time_offset) THEN time_offset
    ELSE time_data_from(data, k, time_offset.val, <<float_of_int(0)>>)

\* time_data_list on the result r of get_data, the loop from position k
time_data_of(r, k) ==
    IF Raised(r) THEN r
    ELSE IF Len(r.val) = 0
        THEN Raise(Exc("IndexError", "list index out of range", <<>>))
    ELSE time_data_loop(r.val, parse_time(r.val[1]), k)

\* time_data_list looping over data instead of data[1:]
time_data_list_all_rows == time_data_of(get_data(NoneArg, StrArg(TimeIndex)), 1)

time_data_list == time_data_of(get_data(NoneArg, StrArg(TimeIndex)), 2)

\* get_unique_color_code up to the hue handed to colorsys.hls_to_rgb:
\* (index * (0xFFFFFF / n)) % n / n as the fraction <<numerator, n * n>>.
\* The conversion of the hue to the "#rrggbb" string is float arithmetic
\* and is left out.
get_unique_color_code(index) ==
    IF Raised(validate_index(IntArg(index))) THEN validate_index(IntArg(index))
    ELSE Return(<<(index * 16777215) % (nr_of_data * nr_of_data), nr_of_data * nr_of_data>>)

----------------------------------------------------------------------------
(* The calls a client makes on a loaded object; each records its outcome *)

IdxArgs == {NoneArg, StrArg(<<"0">>)} \cup {IntArg(i) : i \in (0 - 1)..nr_of_data}
HdrArgs == {NoneArg, IntArg(0)} \cup {StrArg(h) : h \in Range(header_list) \cup {<<"z">>}}

\* a method that only reads self: its outcome becomes the last call
Query(op, idx, hdr, r) ==
    /\ last' = Call(op, idx, hdr, r)
    /\ UNCHANGED <<filepath, disk, prefix, pc, dataframe, nr_of_data, loaded>>

HeaderList ==
    /\ pc = "loaded"
    /\ Query("header_list", NoneArg, NoneArg, Return(header_list))

IndexList ==
    /\ pc = "loaded"
    /\ Query("index_list", NoneArg, NoneArg, Return(index_list))

HeadersMapping ==
    /\ pc = "loaded"
    /\ Query("headers_mapping", NoneArg, NoneArg, headers_mapping)

ConstDataIndexList ==
    /\ pc = "loaded"
    /\ Query("const_data_index_list", NoneArg, NoneArg, const_data_index_list)

ConstZeroDataIndexList ==
    /\ pc = "loaded"
    /\ Query("const_zero_data_index_list", NoneArg, NoneArg, const_zero_data_index_list)

VaryingDataIndexList ==
    /\ pc = "loaded"
    /\ Query("varying_data_index_list", NoneArg, NoneArg, varying_data_index_list)

TimeDataList ==
    /\ pc = "loaded"
    /\ Query("time_data_list", NoneArg, NoneArg, time_data_list)

GetHeader ==
    /\ pc = "loaded"
    /\ \E idx \in IdxArgs :
        idx.t = "int" /\ Query("get_header", idx, NoneArg, get_header(idx.i))

GetIndex ==
    /\ pc = "loaded"
    /\ \E hdr \in HdrArgs :
        hdr.t = "str" /\ Query("get_index", NoneArg, hdr, get_index(hdr.s))

\* get_data taking the column out of the frame (DataFrame.pop for
\* DataFrame.get) when it reads by header
GetDataPop ==
    /\ pc = "loaded"
    /\ \E idx \in IdxArgs, hdr \in HdrArgs :
        /\ last' = Call("get_data", idx, hdr, get_data(idx, hdr))
        /\ dataframe' =
            IF ~Raised(get_raw_data(idx, hdr)) /\ hdr.t = "str"
            THEN LET keep == {k \in 1..Len(header_list) : header_list[k] # hdr.s}
                     pick(q) == SelectSeq(q, LAMBDA x : \E k \in keep : x = q[k])
                 IN  [columns |-> pick(dataframe.columns), data |-> pick(dataframe.data)]
            ELSE dataframe
        /\ UNCHANGED <<filepath, disk, prefix, pc, nr_of_data, loaded>>

GetData ==
    /\ pc = "loaded"
    /\ \E idx \in IdxArgs, hdr \in HdrArgs :
        Query("get_data", idx, hdr, get_data(idx, hdr))

GetDataExtrema ==
    /\ pc = "loaded"
    /\ \E idx \in IdxArgs, hdr \in HdrArgs :
        Query("get_data_extrema", idx, hdr, get_data_extrema(idx, hdr))

GetUniqueColorCode ==
    /\ pc = "loaded"
    /\ \E idx \in IdxArgs :
        idx.t = "int" /\ Query("get_unique_color_code", idx, NoneArg, get_unique_color_code(idx.i))

----------------------------------------------------------------------------
(* The files the model loads *)

DefaultPrefix == <<"T", "r", "u", "m", "a", "_", "n", "_">>

CsvPath == <<"a", ".", "c", "s", "v">>

NoFile(kind) == [kind |-> kind, header |-> <<>>, cols |-> <<>>]
CsvFile(header, cols) == [kind |-> "csv", header |-> header, cols |-> cols]

\* constructor calls that cannot load: <<filepath, disk>>
BadCalls ==
    {<<[t |-> "missing", i |-> 0, s |-> <<>>], NoFile("absent")>>, <<IntArg(4), NoFile("absent")>>}
    \cup {<<StrArg(p), NoFile(k)>> :
            p \in {CsvPath, <<"b", ".", "x", "l", "s", "x">>},
            k \in {"absent", "directory", "empty", "binary", "ragged"}}

\* Data family: few headers, every column content up to MaxRows rows.  The
\* numbers, in ticks: timestamps 0.0005 (its double lies above the decimal,
\* so format(x, '.3f') prints 0.001) and 3661.0000 (01:01:01); cells of
\* HeaderA 0.0000, 0.0005 and 0.0100 (the range 0.01 puts both extrema on a 5
\* in the fourth decimal); cells of the column "b" 0.0000.  The text columns, as <<first cell, every other cell>>:
\* cells pandas does not read as numbers, of which float() refuses "x" and
\* takes "1_0", here after an ideographic space and with an Arabic-Indic
\* zero, as 10.0 and "1e1_5" as 1e15, a second in a year no datetime holds.
HeaderA == DefaultPrefix \o <<"G", ":", ":", "a">>

CellX == <<"x">>
Cell1_0 == <<"U+3000", "1", "_", "U+0660">>

CellVals(header) ==
    IF header = TimeIndex THEN {5, 36610000}
    ELSE IF header = HeaderA THEN {0, 5, 100}
    ELSE {0}

TextCells(header) ==
    IF header = TimeIndex
    THEN {<<CellX, CellX>>, <<Cell1_0, Cell1_0>>, <<Cell1_0, CellX>>, <<<<"1", "e", "1", "_", "5">>, Cell1_0>>}
    ELSE {<<CellX, CellX>>}

Columns(rows, header) ==
    IF rows = 0 THEN {ObjCol(<<>>)}
    ELSE {NumCol(c) : c \in [1..rows -> CellVals(header)]}
         \cup {ObjCol([k \in 1..rows |-> IF k = 1 THEN t[1] ELSE t[2]]) : t \in TextCells(header)}

DataFiles ==
    {CsvFile(h, c) : <<h, c>> \in
        UNION {UNION {{h} \X {c \in [1..Len(h) -> UNION {Columns(rows, g) : g \in Range(h)}] :
                                \A k \in 1..Len(h) : c[k] \in Columns(rows, h[k])}
                      : h \in {<<TimeIndex>>, <<<<"b">>, TimeIndex>>, <<HeaderA, <<"b">>>>}} : rows \in 0..MaxRows}}

\* Header family: one or two distinct headers over a small alphabet, one row.
Headers == UNION {[1..n -> {"T", "_", ":", "a"}] : n \in 1..MaxHdrLen}
HdrFiles ==
    {CsvFile(h, [k \in 1..Len(h) |-> NumCol(<<0>>)]) :
        h \in {<<x>> : x \in Headers}
               \cup {p \in Headers \X Headers : p[1] # p[2]}}

InitCall(fp, d, pre) ==
    /\ filepath = fp
    /\ disk = d
    /\ prefix = pre
    /\ pc = "new"
    /\ dataframe = [columns |-> <<>>, data |-> <<>>]
    /\ nr_of_data = 0
    /\ loaded = FALSE
    /\ last = [op |-> "", idx |-> NoneArg, hdr |-> NoneArg, exc |-> NoExc, ret |-> <<>>]

Init ==
    \E c \in BadCalls \cup {<<StrArg(CsvPath), d>> : d \in DataFiles} :
        InitCall(c[1], c[2], DefaultPrefix)

Next ==
    \/ Construct
    \/ HeaderList
    \/ IndexList
    \/ HeadersMapping
    \/ ConstDataIndexList
    \/ ConstZeroDataIndexList
    \/ VaryingDataIndexList
    \/ TimeDataList
    \/ GetHeader
    \/ GetIndex
    \/ GetData
    \/ GetDataExtrema
    \/ GetUniqueColorCode

Spec == Init /\ [][Next]_vars

\* headers_mapping over the header family
InitHdr == \E d \in HdrFiles : InitCall(StrArg(CsvPath), d, <<"T", "_">>)

NextHdr == Construct \/ HeadersMapping

SpecHdr == InitHdr /\ [][NextHdr]_vars

----------------------------------------------------------------------------
(* Claims *)

Succeeded == last.exc.cls = ""

\* the failure kinds of the specification, by the raise statement
Kind(e) ==
    CASE e.cls = "" -> "none"
      [] e.msg = "The file {} was not found." -> "NotFound"
      [] e.msg = "No columns to parse from file: {}" -> "EmptyData"
      [] e.msg = "Invalid file type: {}" -> "InvalidEncoding"
      [] e.msg = "Invalid file path or buffer object type: {}" -> "InvalidPathType"
      [] e.cls = "TypeError" /\ last.op = "__init__" -> "MissingArgument"
      [] e.msg = "An unexpected error occurred: {}" -> "Unexpected"
      [] e.msg = "Index '{}' out of range." -> "IndexOutOfRange"
      [] e.msg = "Header '{}' not found" -> "HeaderNotFound"
      [] e.msg = "An index or header name must be provided." -> "MissingSelector"
      [] e.msg = "Only one of index or header name should be provided." -> "AmbiguousSelector"
      [] e.msg = "Did you mean to provide the hdr? (hdr= )" -> "TypeMismatch"
      [] e.msg = "Did you mean to provide the idx? (idx= )" -> "TypeMismatch"
      [] e.msg = "could not convert string to float: {}" -> "NonNumericValue"
      [] OTHER -> "other"

SelectorQuery == pc = "loaded" /\ last.op \in {"get_data", "get_data_extrema"}

\* C1: a (index, header) query with both selectors fails as
\* AmbiguousSelector, with neither as MissingSelector, and with exactly one
\* of the wrong type as TypeMismatch, whatever the values of the arguments.
C1_SelectorKinds ==
    SelectorQuery =>
        /\ (last.idx.t # "None" /\ last.hdr.t # "None") => Kind(last.exc) = "AmbiguousSelector"
        /\ (last.idx.t = "None" /\ last.hdr.t = "None") => Kind(last.exc) = "MissingSelector"
        /\ (last.idx.t = "str" /\ last.hdr.t = "None") => Kind(last.exc) = "TypeMismatch"
        /\ (last.idx.t = "None" /\ last.hdr.t = "int") => Kind(last.exc) = "TypeMismatch"

\* the kind the specification gives each cause of a failed load
CauseKind ==
    CASE filepath.t = "missing" -> "MissingArgument"
      [] filepath.t = "int" -> "InvalidPathType"
      [] disk.kind = "absent" -> "NotFound"
      [] disk.kind = "empty" -> "EmptyData"
      [] disk.kind = "binary" -> "InvalidEncoding"
      [] disk.kind = "csv" -> "none"
      [] OTHER -> "Unexpected"

\* C2: construction reports each cause of a failed load under its own kind
\* (NotFound and EmptyData with the path, InvalidEncoding with the
\* extension, anything else Unexpected), and only a successful load leaves
\* loaded = True.
C2_LoadKinds ==
    /\ last.op = "__init__" =>
        /\ Kind(last.exc) = CauseKind
        /\ Kind(last.exc) \in {"NotFound", "EmptyData"} => last.exc.arg = filepath.s
        /\ Kind(last.exc) = "InvalidEncoding" => last.exc.arg = Suffix(filepath.s)
        /\ (pc = "failed") <=> (CauseKind # "none")
    /\ loaded <=> (pc = "loaded")

LoadedFrame == read_csv(filepath, disk).val

\* C3: after any sequence of queries on a loaded object, successful or
\* failing, the table contents, the header order and the cached column
\* count are the ones the load produced.
C3_TableUnchanged ==
    pc = "loaded" =>
        /\ dataframe = LoadedFrame
        /\ header_list = disk.header
        /\ nr_of_data = Len(disk.header)
        /\ loaded

\* C3 witness: a query has just failed on a loaded two-column object
C3_Witness ==
    /\ pc = "loaded"
    /\ last.op = "get_data_extrema"
    /\ Kind(last.exc) = "IndexOutOfRange"
    /\ nr_of_data = 2

\* C4: get_index(get_header(i)) = i for every index i of a loaded table.
C4_IndexOfHeader ==
    pc = "loaded" =>
        \A i \in 0..(nr_of_data - 1) :
            /\ ~Raised(get_header(i))
            /\ get_index(get_header(i).val) = Return(i)

\* C4 witness: get_index of the second column's header has returned 1
C4_Witness ==
    /\ pc = "loaded"
    /\ nr_of_data = 2
    /\ last.op = "get_index"
    /\ last.hdr = StrArg(get_header(1).val)
    /\ Succeeded
    /\ last.ret = 1

\* the cells of a column as floats, stated cell by cell: the numbers of a
\* numeric column; of a text column float() of every cell, or the ValueError
\* of the first cell float() refuses
FloatsOfColumn(col) ==
    IF col.dtype = "number" THEN Return(col.num)
    ELSE LET refused == {k \in 1..Len(col.txt) : Raised(float_of_str(col.txt[k]))}
         IN  IF refused = {}
             THEN Return([k \in 1..Len(col.txt) |-> float_of_str(col.txt[k]).val])
             ELSE float_of_str(col.txt[CHOOSE k \in refused : \A j \in refused : k <= j])

\* C5: get_data(idx=i) and get_data(hdr=get_header(i)) return the same
\* sequence, or fail with the same exception, for every index i: either
\* way the cells of column i as floats, or the ValueError of its first cell
\* that is no number.
C5_DataByIndexOrHeader ==
    pc = "loaded" =>
        \A i \in 0..(nr_of_data - 1) :
            /\ get_data(IntArg(i), NoneArg) = get_data(NoneArg, StrArg(get_header(i).val))
            /\ get_data(IntArg(i), NoneArg) = FloatsOfColumn(dataframe.data[i + 1])

\* C5 witness: get_data by the header of the second column, a text column
\* of two rows, has returned its cells 1e1_5 and 1_0 as the floats 1e15 and
\* 10.0, which get_data by the index 1 returns too; the first column holds
\* other cells
C5_Witness ==
    /\ pc = "loaded"
    /\ nr_of_data = 2
    /\ last.op = "get_data"
    /\ last.hdr = StrArg(header_list[2])
    /\ last.idx = NoneArg
    /\ dataframe.data[2].dtype = "object"
    /\ Len(dataframe.data[2].txt) = 2
    /\ dataframe.data[2].txt[2] = Cell1_0
    /\ Succeeded
    /\ Len(last.ret) = 2
    /\ last.ret[2] = float_of_ticks(100000)
    /\ float_lt(last.ret[2], last.ret[1])
    /\ last.ret = get_data(IntArg(1), NoneArg).val
    /\ dataframe.data[1] # dataframe.data[2]

\* A Python int as an element of a list
PyInt(i) == [int |-> i]

\* C6: varying_data_index_list is a collection of column indices, disjoint
\* from const_data_index_list, whose union with it is the full index set.
C6_VaryingIsComplement ==
    (pc = "loaded" /\ last.op = "varying_data_index_list") =>
        /\ Succeeded
        /\ ~Raised(const_data_index_list)
        /\ LET varying == Range(last.ret)
               const == {PyInt(i) : i \in Range(const_data_index_list.val)}
               full == {PyInt(i) : i \in 0..(nr_of_data - 1)}
           IN  /\ varying \cap const = {}
               /\ varying \cup const = full

\* the column a selector query has read, when its selector is valid
Selected == get_raw_data(last.idx, last.hdr)

ExtremaOfNumbers ==
    /\ pc = "loaded"
    /\ last.op = "get_data_extrema"
    /\ ~Raised(Selected)
    /\ Selected.val.dtype = "number"

\* a float that is a decimal of four places, in ticks
Ticks(x) ==
    IF x.neg THEN 0 - BToInt(round_scaled(x, 10000)) ELSE BToInt(round_scaled(x, 10000))

Abs(n) == IF n < 0 THEN 0 - n ELSE n

\* C7: for a numeric column with min < max, get_data_extrema returns
\* lo < min and hi > max, each 5% of the range away from the raw extremum
\* (to the third decimal), however small the range.
C7_ExtremaStrictPadding ==
    (ExtremaOfNumbers /\ float_lt(SeqMin(Selected.val.num), SeqMax(Selected.val.num))) =>
        LET min_val == SeqMin(Selected.val.num)
            max_val == SeqMax(Selected.val.num)
            range == Ticks(max_val) - Ticks(min_val)
        IN  /\ Succeeded
            /\ float_lt(last.ret[1], min_val)
            /\ float_lt(max_val, last.ret[2])
            /\ Abs(20 * (Ticks(min_val) - Ticks(last.ret[1])) - range) <= 100
            /\ Abs(20 * (Ticks(last.ret[2]) - Ticks(max_val)) - range) <= 100

\* C8: for a column whose rows all hold the same number v,
\* get_data_extrema returns (v - 1.0, v + 1.0), by index or by header.
C8_ConstantExtrema ==
    (ExtremaOfNumbers /\ float_eq(SeqMin(Selected.val.num), SeqMax(Selected.val.num))) =>
        LET v == Selected.val.num[1] IN
        /\ Succeeded
        /\ last.ret = <<float_sub(v, float_of_ticks(10000)), float_add(v, float_of_ticks(10000))>>

\* C8 witness: the extrema of a two-row column of 0.0005, read by header,
\* are -0.9995 and 1.0005
C8_Witness ==
    /\ ExtremaOfNumbers
    /\ last.hdr.t = "str"
    /\ Selected.val.num = <<float_of_ticks(5), float_of_ticks(5)>>
    /\ Succeeded
    /\ Ticks(last.ret[1]) = 0 - 9995
    /\ Ticks(last.ret[2]) = 10005

HasTimeIndex == TimeIndex \in Range(header_list)

TimeColumn == dataframe.data[get_loc(TimeIndex) + 1]

\* C9 as stated: with a 'time index' column, time_data_list returns a
\* sequence that starts with 0.0 and has one element per row, for every row
\* count, zero included.
C9_TimeSeriesAnyRows ==
    (pc = "loaded" /\ last.op = "time_data_list" /\ HasTimeIndex) =>
        /\ Succeeded
        /\ Len(last.ret) = RowCount(TimeColumn)
        /\ last.ret[1] = float_of_ticks(0)

\* C9 as stated, for one row or more: it fails as well, at a cell that is
\* no number ("x", ValueError) and at a number that is no second of a year
\* from 1 to 9999 (1e15, IndexError), so leaving out the table of no rows
\* does not make the statement true.
C9_TimeSeriesFromOneRow ==
    (pc = "loaded" /\ last.op = "time_data_list" /\ HasTimeIndex
        /\ RowCount(TimeColumn) > 0) =>
        /\ Succeeded
        /\ Len(last.ret) = RowCount(TimeColumn)
        /\ last.ret[1] = float_of_ticks(0)

\* the seconds from the epoch back to 0001-01-01 and on to 10000-01-01, as
\* floats: the timestamps a datetime holds lie from the first to below the
\* second
FirstSecond == float_round(TRUE, BShl(BMulSmall(BFromInt(MinDay), 675), 7), 0, FALSE)
EndSecond == float_round(FALSE, BShl(BMulSmall(BFromInt(MaxDay + 1), 675), 7), 0, FALSE)

\* cell k of a column is a timestamp: a number, or a text float() reads as
\* a number, that to the third decimal is a second of a year from 1 to 9999
IsTimestamp(col, k) ==
    LET x == IF col.dtype = "number" THEN Return(col.num[k]) ELSE float_of_str(col.txt[k])
    IN  /\ ~Raised(x)
        /\ ~float_lt(round_3(x.val), FirstSecond)
        /\ float_lt(round_3(x.val), EndSecond)

\* C9 amended: with a 'time index' column of at least one row, every cell
\* of it a timestamp, time_data_list returns a sequence that starts with
\* 0.0 and has one element per row; with no row it raises IndexError.
C9_TimeSeriesShape ==
    (pc = "loaded" /\ last.op = "time_data_list" /\ HasTimeIndex) =>
        /\ RowCount(TimeColumn) = 0 => last.exc.cls = "IndexError"
        /\ (/\ RowCount(TimeColumn) > 0
            /\ \A k \in 1..RowCount(TimeColumn) : IsTimestamp(TimeColumn, k)) =>
                /\ Succeeded
                /\ Len(last.ret) = RowCount(TimeColumn)
                /\ last.ret[1] = float_of_ticks(0)

\* C9 witness: the series of the 'time index' column 0.0005, 3661.0: the
\* first timestamp is read as 0.001 s, so the second row is 3660.999 s
C9_Witness ==
    /\ pc = "loaded"
    /\ last.op = "time_data_list"
    /\ Succeeded
    /\ last.ret = <<float_of_ticks(0), float_of_ticks(36609990)>>

\* the (group, leaf) of a header as C10 states it: the prefix removed only
\* from the start, one split at the first "::"
ClaimGroupLeaf(header) ==
    LET stripped == IF StartsWithAt(header, prefix, 1)
                    THEN SubSeq(header, Len(prefix) + 1, Len(header))
                    ELSE header
        k == Find(stripped, Sep, 1)
    IN  IF k = 0 THEN <<NoneKey, stripped>>
        ELSE <<StrKey(SubSeq(stripped, 1, k - 1)), SubSeq(stripped, k + Len(Sep), Len(stripped))>>

\* C10: headers_mapping succeeds for every header list and places each
\* column index exactly once, under its (group, leaf); entries of a group in
\* increasing column order, groups in order of first occurrence.
C10_HeadersMapping ==
    (pc = "loaded" /\ last.op = "headers_mapping") =>
        /\ Succeeded
        /\ LET m == last.ret
               places(i) == {p \in {<<g, e>> : g \in 1..Len(m), e \in 1..MaxHdrLen} :
                               /\ p[2] <= Len(m[p[1]].items)
                               /\ m[p[1]].items[p[2]][2] = i}
           IN  /\ \A i \in 0..(nr_of_data - 1) :
                    /\ Cardinality(places(i)) = 1
                    /\ \A p \in places(i) :
                        /\ m[p[1]].group = ClaimGroupLeaf(header_list[i + 1])[1]
                        /\ m[p[1]].items[p[2]][1] = ClaimGroupLeaf(header_list[i + 1])[2]
               /\ \A g \in 1..Len(m) : \A e1, e2 \in 1..Len(m[g].items) :
                    e1 < e2 => m[g].items[e1][2] < m[g].items[e2][2]
               /\ \A g1, g2 \in 1..Len(m) :
                    g1 < g2 => /\ m[g1].group # m[g2].group
                               /\ m[g1].items[1][2] < m[g2].items[1][2]

====
